---- MODULE Spec2Model ----
(***************************************************************************)
(* A model of LKAN's training harness: CustomLogger (src/lkan/loggers.py)  *)
(* and BaseTrainer (src/lkan/trainers/base.py).                            *)
(*                                                                         *)
(* Two specifications share the module.  SpecFit follows one call of       *)
(* BaseTrainer.fit through its epoch/batch loop; SpecLogger follows the    *)
(* life of CustomLogger objects built against one base directory.          *)
(*                                                                         *)
(* Collaborators that live outside the repository (torch, tensorboard,     *)
(* OmegaConf, the data module, the subclass's step) are modelled by the    *)
(* calls the code makes on them, recorded in history variables.            *)
(***************************************************************************)
EXTENDS Integers, Sequences, FiniteSets, TLC

\* ------------------------------------------------------------------------
\* Bounds of the model.
\* ------------------------------------------------------------------------
MaxEpochs == 3        \* max_epochs ranges over 0..MaxEpochs
MaxStepsArg == 6      \* max_steps ranges over 0..MaxStepsArg
MaxEvery == 3         \* periods (validation, accumulation, lr interval) range over 1..MaxEvery
MaxSaveEvery == 3     \* save_every_n_steps ranges over 1..MaxSaveEvery
MaxTrainBatches == 3  \* batches per epoch range over 0..MaxTrainBatches
MaxValBatches == 2    \* validation batches range over 1..MaxValBatches
MaxRuns == 3          \* run folders that may exist beforehand are run0..run<MaxRuns-1>
MaxConstructs == 2    \* CustomLogger constructions per behaviour
MaxUpdates == 2       \* update_hyperparams calls per logger
MaxLogs == 2          \* log_dict calls per logger

VARIABLES
    \* ---- BaseTrainer fields (base.py 23-33, 89)
    lr_step,                  \* [kind, k]: "epoch", "none" (None) or "step" with interval k
    has_lr_scheduler,         \* whether lr_scheduler was given to __init__ (base.py 28-29)
    accumulate_grad_batches,
    global_step,
    \* ---- arguments and locals of fit (base.py 70-129)
    max_epochs, max_steps, validation_every_n_steps, save_every_n_steps,
    n_train,                  \* len(datamodule.train_dataloader())
    n_val,                    \* len(datamodule.val_dataloader())
    stop, epoch, batch_idx,
    val_next,                 \* index the cycled validation iterator yields next
    pc,                       \* position of fit: "new", "epoch", "batch", "epoch_end", "done" ("idle": fit is never called)
    \* ---- calls fit made on its collaborators, in order
    train_calls,              \* training_step calls: [gs, batch_idx, epoch]
    torch_ops,                \* torch calls of the latest training_step
    opt_steps,                \* global_step at each opt.step()
    sched_steps,              \* lr_scheduler.step() calls: [at, gs, epoch]
    val_calls,                \* validation_step calls: [batch, batch_idx, gs]
    saved,                    \* steps handed to logger.save_model
    \* ---- CustomLogger fields and the directory it writes to
    fs,                       \* the folders <base>/run<N>: N |-> the construction that
                              \* made it (0: it was there before any construction)
    created,                  \* run index made by each construction, in order
    constructed,              \* a logger object exists
    cfg,                      \* the configuration object handed to __init__
    save_dir,                 \* self.save_dir, as the run index N of <base>/run<N>
    hparams, metrics,         \* self.hparams, self.metrics
    scalars,                  \* writer.add_scalar calls: [tag, value, step]
    checkpoints,              \* files <run>/checkpoints/model_<step>.pt: [run, step]
    summaries,                \* hparams summary records written by finalize
    closed,                   \* writer.close() was called
    hp_updates,               \* update_hyperparams calls of this logger: [hparams, metrics]
    logged                    \* log_dict calls of this logger: [params, step]

trainerVars == <<lr_step, has_lr_scheduler, accumulate_grad_batches, global_step,
                 max_epochs, max_steps, validation_every_n_steps, save_every_n_steps,
                 n_train, n_val, stop, epoch, batch_idx, val_next, pc,
                 train_calls, torch_ops, opt_steps, sched_steps, val_calls, saved>>
loggerVars == <<fs, created, constructed, cfg, save_dir, hparams, metrics,
                summaries, closed, hp_updates, logged>>
sinkVars == <<scalars, checkpoints>>
vars == <<trainerVars, loggerVars, sinkVars>>

\* ------------------------------------------------------------------------
\* Python values: a dict is a function from string keys; a value carries
\* its type so that str() and isinstance() can be computed.
\* ------------------------------------------------------------------------
PyInt(n) == [t |-> "int", v |-> n]
PyStr(s) == [t |-> "str", v |-> s]
PyBool(b) == [t |-> "bool", v |-> b]
PyDict(d) == [t |-> "dict", v |-> d]
\* a container of the OmegaConf configuration: a mapping that is no dict
PyCfg(d) == [t |-> "cfg", v |-> d]
EmptyDict == [k \in {} |-> PyInt(0)]

\* ========================================================================
\* CustomLogger
\* ========================================================================
BaseDir == "runs"     \* the save_dir argument of __init__
Sep == "/"            \* flatten_dict's default separator (loggers.py 9)

\* loggers.py 12: the key of an entry below parent_key
NewKey(parent_key, k) == IF parent_key # "" THEN parent_key \o Sep \o k ELSE k

\* loggers.py 10-16: the (key, value) items flatten_dict collects from d.
\* Only a value that passes isinstance(v, dict) is descended into; the
\* nested containers of the configuration __init__ receives are OmegaConf
\* containers, which do not, and are collected whole.
RECURSIVE FlattenItems(_, _)
FlattenItems(d, parent_key) ==
    UNION {IF d[k].t = "dict"
           THEN FlattenItems(d[k].v, NewKey(parent_key, k))
           ELSE {<<NewKey(parent_key, k), d[k]>>} : k \in DOMAIN d}

\* loggers.py 9-17: flatten_dict(d, parent_key).  dict(items) keeps one
\* value per key; the configurations followed have no two leaves with the
\* same joined key, where insertion order would decide.
flatten_dict(d, parent_key) ==
    LET items == FlattenItems(d, parent_key)
    IN [key \in {it[1] : it \in items} |-> (CHOOSE it \in items : it[1] = key)[2]]

\* the keys of the mappings followed, in the order they were inserted
KeyOrder == <<"a", "b", "c", "save_dir">>
OrderedKeys(d) == SelectSeq(KeyOrder, LAMBDA k : k \in DOMAIN d)

\* Python's repr() of a value; a container prints as {'k': v, ...}
RECURSIVE PyRepr(_)
RECURSIVE JoinItems(_, _)
JoinItems(d, keys) ==
    IF keys = <<>> THEN ""
    ELSE "'" \o Head(keys) \o "': " \o PyRepr(d[Head(keys)])
            \o (IF Len(keys) > 1 THEN ", " \o JoinItems(d, Tail(keys)) ELSE "")
PyRepr(x) ==
    CASE x.t = "int" -> ToString(x.v)
      [] x.t = "bool" -> (IF x.v THEN "True" ELSE "False")
      [] x.t = "str" -> "'" \o x.v \o "'"
      [] x.t \in {"dict", "cfg"} -> "{" \o JoinItems(x.v, OrderedKeys(x.v)) \o "}"

\* Python's str() of a value
Repr(x) == IF x.t = "str" THEN x.v ELSE PyRepr(x)

\* loggers.py 36-37: a value that is not a str is replaced by its str()
StrValue(x) == IF x.t # "str" THEN PyStr(Repr(x)) ELSE x

\* loggers.py 33-39: the mapping __init__ stores in self.hparams
InitHparams(c) ==
    LET flat == flatten_dict(c, "")
    IN [key \in DOMAIN flat |-> StrValue(flat[key])]

\* cfg.save_dir = ... (loggers.py 23, 55)
SetSaveDir(c, path) ==
    [k \in DOMAIN c \cup {"save_dir"} |-> IF k = "save_dir" THEN PyStr(path) ELSE c[k]]

\* f"{cfg.save_dir}/run{i}" (loggers.py 43, 48)
RunPath(n) == BaseDir \o "/run" \o ToString(n)

\* loggers.py 47-49: the while loop, new_save_dir being run<new>
RECURSIVE ProbeRuns(_, _, _)
ProbeRuns(existing, new, i) ==
    IF new \in existing THEN ProbeRuns(existing, i, i + 1) ELSE new

\* A variant that names the run after the number of folders present
folder_structure_ByCount(existing) == Cardinality(existing)

\* loggers.py 43-49: the index of the run folder folder_structure picks,
\* given the indices of the run folders that exist
folder_structure(existing) == ProbeRuns(existing, 0, 1)

\* A variant that replaces the stored mapping by the new one
DictUpdate_Replace(old, new) == new

\* dict.update (loggers.py 68-69): entries of new replace those of old
DictUpdate(old, new) ==
    [k \in DOMAIN old \cup DOMAIN new |-> IF k \in DOMAIN new THEN new[k] ELSE old[k]]

\* CustomLogger.__init__ (loggers.py 21-57) on configuration c against a
\* base directory holding the run folders of folders (a function from the
\* folder's index to the construction that made it, 0 if it was there
\* before), as construction number made: the folders afterwards, the
\* folder made, the configuration object as __init__ leaves it, and the
\* mapping stored in self.hparams.
AfterInit(folders, c, made) ==
    LET n == folder_structure(DOMAIN folders)
        c1 == SetSaveDir(c, BaseDir)
        c2 == SetSaveDir(c1, RunPath(n))
    IN [fs |-> [m \in DOMAIN folders \cup {n} |-> IF m = n THEN made ELSE folders[m]],
        run |-> n,
        cfg |-> c2,
        hparams |-> InitHparams(c2)]

NoFolders == [m \in {} |-> 0]
Preexisting(S) == [m \in S |-> 0]

\* the state in which the object built by AfterInit's result r is the
\* first and only logger: a fresh writer, no metrics, nothing on disk yet
LoggerBuilt(r) ==
    /\ fs = r.fs /\ created = <<r.run>> /\ constructed = TRUE
    /\ cfg = r.cfg /\ save_dir = r.run
    /\ hparams = r.hparams /\ metrics = EmptyDict
    /\ scalars = {} /\ checkpoints = {} /\ summaries = <<>>
    /\ closed = FALSE /\ hp_updates = <<>> /\ logged = <<>>

\* log_dict (loggers.py 71-73): one add_scalar per entry, tagged with step
log_dict(params, step) ==
    scalars \cup {[tag |-> k, value |-> params[k], step |-> step] : k \in DOMAIN params}

\* save_model (loggers.py 82-83): writes <save_dir>/checkpoints/model_<step>.pt
save_model(step) == checkpoints \cup {[run |-> save_dir, step |-> step]}

\* ========================================================================
\* BaseTrainer
\* ========================================================================
LrSteps ==
    [kind : {"epoch", "none"}, k : {0}] \cup [kind : {"step"}, k : 1..MaxEvery]

\* The subclass's step(batch, batch_idx) -> (loss, logs) is abstract
\* (base.py 38-39); its log mapping is taken to hold one metric, "loss",
\* whose value stands for the batch it was computed on.
StepLogs(batch) == [loss |-> batch]

\* A variant gate keyed on the count of batches seen, this one included
UpdateDue_OnCount(gs) == (gs + 1) % accumulate_grad_batches = 0

\* A variant gate that skips the update of the very first batch
UpdateDue_SkipFirst(gs) == gs > 0 /\ gs % accumulate_grad_batches = 0

\* base.py 46: the gate of clipping and of the optimizer update
UpdateDue(gs) == gs % accumulate_grad_batches = 0

\* base.py 42-49: the torch calls of one training_step at global step gs
TrainingStepOps(gs) ==
    <<"step", "zero_grad", "backward">>
        \o (IF UpdateDue(gs) THEN <<"clip_grad_norm_", "opt.step">> ELSE <<>>)

\* base.py 50-56: logs["lr"] added, keys prefixed with train/, logged at
\* the global step of the call.  The learning rate is identified with the
\* number of scheduler steps taken so far.
TrainingLogs(batch) ==
    [k \in {"train/loss", "train/lr"} |->
        IF k = "train/loss" THEN StepLogs(batch).loss ELSE Len(sched_steps)]

\* base.py 67-68: validation logs, keys prefixed with val/
ValidationLogs(batch) == [k \in {"val/loss"} |-> StepLogs(batch).loss]

\* base.py 104-108: the per-step scheduler condition, read after the increment
LrStepDue(gs) ==
    /\ lr_step.kind \notin {"epoch", "none"}
    /\ gs % lr_step.k = 0
    /\ has_lr_scheduler

\* A variant test that lets one more step through
StopDue_Late(gs) == gs > max_steps + 1

\* base.py 111: the early-termination test, read after the increment
StopDue(gs) == gs > max_steps

\* A variant condition keyed on the counter before its increment
SaveDue_PreIncrement(gs) == (gs - 1) % save_every_n_steps = 0

\* base.py 115: the checkpoint condition
SaveDue(gs) == gs % save_every_n_steps = 0

\* A variant condition keyed on the global step instead of the batch index
ValidationDue_OnGlobalStep(bi) == (global_step + 1) % validation_every_n_steps = 0

\* base.py 118: the validation condition, on the index within the epoch
ValidationDue(bi) == bi % validation_every_n_steps = 0

\* A variant condition that skips the epoch left by the break
EpochLrDue_CompletedOnly == lr_step.kind = "epoch" /\ has_lr_scheduler /\ ~stop

\* base.py 125: the per-epoch scheduler condition
EpochLrDue == lr_step.kind = "epoch" /\ has_lr_scheduler

\* next() on iter(itertools.cycle(val_dataloader())) (base.py 91, 119)
CycleNext(pos) == (pos + 1) % n_val

\* BaseTrainer.__init__ (base.py 11-33) and the data module handed to fit.
\* A trainer built without a scheduler has no lr_scheduler attribute, so
\* base.py 107 and 125 raise AttributeError unless lr_step is None; the
\* runs followed here are those of trainers for which fit can run.
TrainerInit ==
    /\ lr_step \in LrSteps
    /\ has_lr_scheduler \in BOOLEAN
    /\ (has_lr_scheduler \/ lr_step.kind = "none")
    /\ accumulate_grad_batches \in 1..MaxEvery
    /\ n_train \in 0..MaxTrainBatches
    /\ n_val \in 1..MaxValBatches
    /\ global_step = 0
    /\ max_epochs = 0 /\ max_steps = 0
    /\ validation_every_n_steps = 1 /\ save_every_n_steps = 1
    /\ stop = FALSE /\ epoch = 0 /\ batch_idx = 0 /\ val_next = 0
    /\ pc = "new"
    /\ train_calls = <<>> /\ torch_ops = <<>> /\ opt_steps = <<>>
    /\ sched_steps = <<>> /\ val_calls = <<>> /\ saved = <<>>

\* base.py 89-92: fit is entered; the counter is reset, the validation
\* iterator is made once, the epoch range starts.
Fit ==
    /\ pc = "new"
    /\ max_epochs' \in 0..MaxEpochs
    /\ max_steps' \in 0..MaxStepsArg
    /\ validation_every_n_steps' \in 1..MaxEvery
    /\ save_every_n_steps' \in 1..MaxSaveEvery
    /\ global_step' = 0
    /\ stop' = FALSE
    /\ val_next' = 0
    /\ epoch' = 0
    /\ pc' = "epoch"
    /\ UNCHANGED <<lr_step, has_lr_scheduler, accumulate_grad_batches, n_train, n_val,
                   batch_idx, train_calls, torch_ops, opt_steps, sched_steps,
                   val_calls, saved>>
    /\ UNCHANGED <<loggerVars, sinkVars>>

\* base.py 92-95: range(max_epochs) yields the next epoch and the training
\* data is enumerated afresh.
EpochBegin ==
    /\ pc = "epoch"
    /\ epoch < max_epochs
    /\ batch_idx' = 0
    /\ pc' = "batch"
    /\ UNCHANGED <<lr_step, has_lr_scheduler, accumulate_grad_batches, global_step,
                   max_epochs, max_steps, validation_every_n_steps, save_every_n_steps,
                   n_train, n_val, stop, epoch, val_next,
                   train_calls, torch_ops, opt_steps, sched_steps, val_calls, saved>>
    /\ UNCHANGED <<loggerVars, sinkVars>>

\* base.py 95-123: one pass of the inner loop body, for training batch
\* batch_idx: training_step, the increment, the per-step scheduler, the
\* early-termination test, the checkpoint and the validation step.
TrainBatch ==
    /\ pc = "batch"
    /\ batch_idx < n_train
    /\ LET gs0 == global_step
           gs1 == global_step + 1
           trainScalars == log_dict(TrainingLogs(batch_idx), gs0)
           halted == StopDue(gs1)
           doSave == ~halted /\ SaveDue(gs1)
           doVal == ~halted /\ ValidationDue(batch_idx)
       IN
       /\ train_calls' = Append(train_calls,
                               [gs |-> gs0, batch_idx |-> batch_idx, epoch |-> epoch])
       /\ torch_ops' = TrainingStepOps(gs0)
       /\ opt_steps' = IF UpdateDue(gs0) THEN Append(opt_steps, gs0) ELSE opt_steps
       /\ global_step' = gs1
       /\ sched_steps' =
             IF LrStepDue(gs1)
             THEN Append(sched_steps,
                         [at |-> "step", gs |-> gs1, epoch |-> epoch])
             ELSE sched_steps
       /\ stop' = (stop \/ halted)
       /\ saved' = IF doSave THEN Append(saved, gs1) ELSE saved
       /\ checkpoints' = IF doSave THEN save_model(gs1) ELSE checkpoints
       /\ val_calls' =
             IF doVal
             THEN Append(val_calls,
                         [batch |-> val_next, batch_idx |-> batch_idx, gs |-> gs1])
             ELSE val_calls
       /\ val_next' = IF doVal THEN CycleNext(val_next) ELSE val_next
       /\ scalars' =
             IF doVal
             THEN trainScalars \cup
                  {[tag |-> k, value |-> ValidationLogs(val_next)[k], step |-> gs1] :
                      k \in DOMAIN ValidationLogs(val_next)}
             ELSE trainScalars
       /\ batch_idx' = IF halted THEN batch_idx ELSE batch_idx + 1
       /\ pc' = IF halted THEN "epoch_end" ELSE "batch"
    /\ UNCHANGED <<lr_step, has_lr_scheduler, accumulate_grad_batches,
                   max_epochs, max_steps, validation_every_n_steps, save_every_n_steps,
                   n_train, n_val, epoch>>
    /\ UNCHANGED loggerVars

\* base.py 95, 125-129: the inner loop is over (exhausted, or left by the
\* break of line 113); the per-epoch scheduler step, then the outer break.
EpochEnd ==
    /\ \/ pc = "epoch_end"
       \/ pc = "batch" /\ batch_idx >= n_train
    /\ sched_steps' =
          IF EpochLrDue
          THEN Append(sched_steps,
                      [at |-> "epoch", gs |-> global_step, epoch |-> epoch])
          ELSE sched_steps
    /\ epoch' = IF stop THEN epoch ELSE epoch + 1
    /\ pc' = IF stop THEN "done" ELSE "epoch"
    /\ UNCHANGED <<lr_step, has_lr_scheduler, accumulate_grad_batches, global_step,
                   max_epochs, max_steps, validation_every_n_steps, save_every_n_steps,
                   n_train, n_val, stop, batch_idx, val_next,
                   train_calls, torch_ops, opt_steps, val_calls, saved>>
    /\ UNCHANGED <<loggerVars, sinkVars>>

\* base.py 92: range(max_epochs) is exhausted and fit returns
FitReturn ==
    /\ pc = "epoch"
    /\ epoch >= max_epochs
    /\ pc' = "done"
    /\ UNCHANGED <<lr_step, has_lr_scheduler, accumulate_grad_batches, global_step,
                   max_epochs, max_steps, validation_every_n_steps, save_every_n_steps,
                   n_train, n_val, stop, epoch, batch_idx, val_next,
                   train_calls, torch_ops, opt_steps, sched_steps, val_calls, saved>>
    /\ UNCHANGED <<loggerVars, sinkVars>>

\* The logger the trainer was given: the first one built against an empty
\* base directory, from an empty configuration.
FitLoggerInit == LoggerBuilt(AfterInit(NoFolders, EmptyDict, 1))

InitFit == TrainerInit /\ FitLoggerInit
NextFit == Fit \/ EpochBegin \/ TrainBatch \/ EpochEnd \/ FitReturn
SpecFit == InitFit /\ [][NextFit]_vars

\* ========================================================================
\* CustomLogger: its operations, and the two specifications of loggers
\* ========================================================================

\* a trainer on which fit is never called
TrainerIdle ==
    /\ lr_step = [kind |-> "none", k |-> 0] /\ has_lr_scheduler = FALSE
    /\ accumulate_grad_batches = 1 /\ global_step = 0
    /\ max_epochs = 0 /\ max_steps = 0
    /\ validation_every_n_steps = 1 /\ save_every_n_steps = 1
    /\ n_train = 0 /\ n_val = 1
    /\ stop = FALSE /\ epoch = 0 /\ batch_idx = 0 /\ val_next = 0
    /\ pc = "idle"
    /\ train_calls = <<>> /\ torch_ops = <<>> /\ opt_steps = <<>>
    /\ sched_steps = <<>> /\ val_calls = <<>> /\ saved = <<>>

\* ---- configurations handed to the constructor
Leaves == {PyInt(1), PyStr("x"), PyBool(TRUE)}
\* containers of leaves under keys "b" and "c"
LeafDicts == UNION {[K -> Leaves] : K \in SUBSET {"b", "c"}}
\* what key "a" may hold: a leaf, a container of leaves, or a container
\* two levels deep
AValues ==
    Leaves \cup {PyCfg(d) : d \in LeafDicts}
           \cup {PyCfg("b" :> PyCfg("c" :> l)) : l \in Leaves}
\* configurations with keys among "a" and "c", "c" holding a leaf
Configs ==
    {c \in UNION {[K -> AValues] : K \in SUBSET {"a", "c"}} :
        "c" \in DOMAIN c => c["c"] \in Leaves}
\* the configuration {a: {b: 1}, c: "x"}
ExampleConfig == "a" :> PyCfg("b" :> PyInt(1)) @@ "c" :> PyStr("x")
SmallConfigs == {EmptyDict, ExampleConfig}
Runs == 0..(MaxRuns - 1)

\* CustomLogger.__init__ (loggers.py 21-40) on configuration c: a run
\* folder is made, the configuration is saved and flattened, and a new
\* object with a fresh writer and no metrics replaces the previous one.
Construct(c) ==
    /\ Len(created) < MaxConstructs
    /\ LET r == AfterInit(fs, c, Len(created) + 1)
       IN /\ fs' = r.fs
          /\ created' = Append(created, r.run)
          /\ save_dir' = r.run
          /\ cfg' = r.cfg
          /\ hparams' = r.hparams
    /\ constructed' = TRUE
    /\ metrics' = EmptyDict
    /\ scalars' = {}
    /\ summaries' = <<>>
    /\ closed' = FALSE
    /\ hp_updates' = <<>> /\ logged' = <<>>
    /\ UNCHANGED checkpoints
    /\ UNCHANGED trainerVars

\* ---- arguments of the calls made on a logger
HpCalls ==
    {[hparams |-> "lr" :> PyInt(3), metrics |-> "acc" :> 1],
     [hparams |-> "note" :> PyStr("y"), metrics |-> ("acc" :> 2 @@ "val/loss" :> 1)],
     [hparams |-> EmptyDict, metrics |-> "train/loss" :> 0]}
LogParams == {"train/loss" :> 1 @@ "train/lr" :> 0, "val/loss" :> 2}
LogSteps == {0, 1}
SaveSteps == {5, 10}
\* the global_step add_scalar gets when none is given (loggers.py 91)
NoStep == 0 - 1

\* update_hyperparams (loggers.py 67-69): both mappings are merged in
\* memory; nothing is written
UpdateHyperparams(call) ==
    /\ constructed /\ ~closed
    /\ Len(hp_updates) < MaxUpdates
    /\ hparams' = DictUpdate(hparams, call.hparams)
    /\ metrics' = DictUpdate(metrics, call.metrics)
    /\ hp_updates' = Append(hp_updates, call)
    /\ UNCHANGED <<fs, created, constructed, cfg, save_dir, summaries, closed, logged>>
    /\ UNCHANGED <<trainerVars, sinkVars>>

\* log_dict (loggers.py 71-73): the entries go to the writer; self.metrics
\* is not touched
LogDict(params, step) ==
    /\ constructed /\ ~closed
    /\ Len(logged) < MaxLogs
    /\ scalars' = log_dict(params, step)
    /\ logged' = Append(logged, [params |-> params, step |-> step])
    /\ UNCHANGED <<fs, created, constructed, cfg, save_dir, hparams, metrics,
                   summaries, closed, hp_updates, checkpoints>>
    /\ UNCHANGED trainerVars

\* save_model (loggers.py 82-83)
SaveModel(step) ==
    /\ constructed /\ ~closed
    /\ checkpoints' = save_model(step)
    /\ UNCHANGED <<loggerVars, scalars>>
    /\ UNCHANGED trainerVars

\* finalize (loggers.py 85-92): the hparams summary of self.hparams and
\* self.metrics is written, then one scalar per entry of self.metrics,
\* then the writer is closed.  Calls on a finalized logger are not followed.
Finalize ==
    /\ constructed /\ ~closed
    /\ summaries' = Append(summaries, [hparams |-> hparams, metrics |-> metrics])
    /\ scalars' = log_dict(metrics, NoStep)
    /\ closed' = TRUE
    /\ UNCHANGED <<fs, created, constructed, cfg, save_dir, hparams, metrics,
                   hp_updates, logged, checkpoints>>
    /\ UNCHANGED trainerVars

\* SpecLogger: one logger from its construction to finalize
InitialFolders == {{}, {0}, {0, 2}}
InitLogger ==
    /\ TrainerIdle
    /\ \E S \in InitialFolders : \E c \in SmallConfigs :
          LoggerBuilt(AfterInit(Preexisting(S), c, 1))
NextLogger ==
    \/ \E call \in HpCalls : UpdateHyperparams(call)
    \/ \E params \in LogParams : \E step \in LogSteps : LogDict(params, step)
    \/ \E step \in SaveSteps : SaveModel(step)
    \/ Finalize
SpecLogger == InitLogger /\ [][NextLogger]_vars

\* SpecConstruct: loggers built one after the other against one base
\* directory, which may hold run folders beforehand
InitConstruct ==
    /\ TrainerIdle
    /\ \E S \in SUBSET Runs : fs = Preexisting(S)
    /\ created = <<>> /\ constructed = FALSE
    /\ cfg = EmptyDict /\ save_dir = 0
    /\ hparams = EmptyDict /\ metrics = EmptyDict
    /\ scalars = {} /\ checkpoints = {} /\ summaries = <<>>
    /\ closed = FALSE /\ hp_updates = <<>> /\ logged = <<>>
NextConstruct == \E c \in Configs : Construct(c)
SpecConstruct == InitConstruct /\ [][NextConstruct]_vars

\* ========================================================================
\* Properties of fit (checked under SpecFit)
\* ========================================================================
Range(s) == {s[i] : i \in 1..Len(s)}
Increasing(s) == \A i \in 1..Len(s) : \A j \in 1..Len(s) : i < j => s[i] < s[j]
\* the numbers of a finite set, in ascending order
RECURSIVE Ascending(_)
Ascending(S) ==
    IF S = {} THEN <<>>
    ELSE LET m == CHOOSE x \in S : \A y \in S : x <= y
         IN <<m>> \o Ascending(S \ {m})

Started == pc # "new"
\* the training steps of epoch e
StepsOfEpoch(e) == {i \in 1..Len(train_calls) : train_calls[i].epoch = e}
\* epochs whose inner loop has been left, by exhaustion or by the break
EpochsEnded == epoch + (IF pc = "done" /\ stop THEN 1 ELSE 0)
\* epochs whose training data was iterated to its end and whose loop has been left
CompletedEpochs ==
    {e \in 0..(EpochsEnded - 1) : Cardinality(StepsOfEpoch(e)) = n_train}

\* C1: once a training step has raised global_step above max_steps, fit
\* executes no further training_step, checkpoint save or validation step
\* and begins no further epoch (the step that raises it runs neither a save
\* nor a validation), and global_step never exceeds max_steps + 1.
C1_HaltsOnceMaxStepsExceeded ==
    /\ [](Started => global_step <= max_steps + 1)
    /\ [](global_step > max_steps => stop /\ pc \in {"epoch_end", "done"})
    /\ [][global_step > max_steps =>
            /\ train_calls' = train_calls
            /\ saved' = saved /\ checkpoints' = checkpoints
            /\ val_calls' = val_calls
            /\ epoch' = epoch
            /\ pc' = "done"]_vars
    /\ [][global_step' > max_steps =>
            saved' = saved /\ checkpoints' = checkpoints /\ val_calls' = val_calls]_vars

\* C1 witness: fit returned after the excess happened mid-epoch with
\* epochs still to run.
C1_Witness ==
    /\ pc = "done" /\ stop
    /\ global_step = max_steps + 1
    /\ batch_idx + 1 < n_train
    /\ epoch >= 1 /\ epoch + 1 < max_epochs
    /\ max_steps >= 3

\* the case of C2: max_steps = 0 with at least one epoch and one batch
C2_Case == Started /\ max_steps = 0 /\ max_epochs >= 1 /\ n_train >= 1

\* C2 as stated: with max_steps = 0 the optimizer is never stepped and no
\* training step completes.
C2_AsStated == C2_Case => opt_steps = <<>> /\ train_calls = <<>>

\* C2 amended: with max_steps = 0 fit runs the first training step in
\* full, which steps the optimizer once (at global step 0), and stops
\* right after it: no second training step, no save, no validation.
C2_OneUpdateThenStop ==
    C2_Case =>
        /\ Len(opt_steps) <= 1 /\ Len(train_calls) <= 1
        /\ saved = <<>> /\ val_calls = <<>>
        /\ (pc \in {"epoch_end", "done"} =>
               /\ opt_steps = <<0>>
               /\ train_calls = <<[gs |-> 0, batch_idx |-> 0, epoch |-> 0]>>
               /\ global_step = 1 /\ stop)
        /\ (pc = "done" => epoch = 0)

C2_Witness ==
    /\ C2_Case /\ pc = "done" /\ opt_steps = <<0>>
    /\ accumulate_grad_batches = 2 /\ n_train >= 2 /\ max_epochs >= 2

\* C3 as stated: save_model(model, s) is called, once, exactly for the
\* values s the global step takes after a training step that are
\* multiples of save_every_n_steps.
C3_AsStated ==
    Started =>
        saved = Ascending({s \in 1..global_step : s % save_every_n_steps = 0})

\* C3 amended: save_model(model, s) is called, once, exactly for the
\* values s the global step takes after a training step that are
\* multiples of save_every_n_steps and do not exceed max_steps; the step
\* that ends the run is not saved.
C3_SavesMultiplesUpToMaxSteps ==
    Started =>
        /\ saved = Ascending({s \in 1..global_step :
                                 s % save_every_n_steps = 0 /\ s <= max_steps})
        /\ checkpoints = {[run |-> save_dir, step |-> s] : s \in Range(saved)}

C3_Witness ==
    /\ pc = "done" /\ stop
    /\ save_every_n_steps = 2
    /\ saved = <<2, 4>>
    /\ global_step = 6

\* C8: clipping and the optimizer update happen in a training step iff
\* the global step at the time of the call is a multiple of
\* accumulate_grad_batches; so the update happens every N-th training
\* step, the first batch (global step 0) always updates, and zero_grad
\* precedes backward in every training step.
C8_UpdateGatedOnGlobalStep ==
    /\ \A i \in 1..Len(train_calls) : train_calls[i].gs = i - 1
    /\ opt_steps = Ascending({g \in 0..(Len(train_calls) - 1) :
                                 g % accumulate_grad_batches = 0})
    /\ (train_calls # <<>> => opt_steps # <<>> /\ opt_steps[1] = 0)
    /\ (train_calls # <<>> =>
          LET g == train_calls[Len(train_calls)].gs
              due == g % accumulate_grad_batches = 0
          IN /\ ("opt.step" \in Range(torch_ops)) <=> due
             /\ ("clip_grad_norm_" \in Range(torch_ops)) <=> due
             /\ \E i, j \in 1..Len(torch_ops) :
                   /\ i < j
                   /\ torch_ops[i] = "zero_grad" /\ torch_ops[j] = "backward"
                   /\ \A m \in 1..Len(torch_ops) :
                         torch_ops[m] \in {"clip_grad_norm_", "opt.step"} => m > j)

C8_Witness ==
    /\ accumulate_grad_batches = 2
    /\ Len(train_calls) = 4
    /\ opt_steps = <<0, 2>>
    /\ "opt.step" \notin Range(torch_ops)

\* C9: a training step that does not end the run is followed by exactly
\* one validation step iff its batch index within the epoch is a multiple
\* of validation_every_n_steps (so the first batch of each epoch is), and
\* the k-th validation step of the fit sees validation batch (k-1) mod V.
C9_ValidationOnBatchIndex ==
    /\ \A i \in 1..Len(train_calls) :
          Cardinality({j \in 1..Len(val_calls) : val_calls[j].gs = i}) =
              (IF i <= max_steps /\ train_calls[i].batch_idx % validation_every_n_steps = 0
               THEN 1 ELSE 0)
    /\ \A j \in 1..Len(val_calls) :
          /\ val_calls[j].gs \in 1..Len(train_calls)
          /\ val_calls[j].batch_idx = train_calls[val_calls[j].gs].batch_idx
          /\ val_calls[j].batch = (j - 1) % n_val
    /\ Increasing([j \in 1..Len(val_calls) |-> val_calls[j].gs])
    /\ \A i \in 1..Len(train_calls) :
          (train_calls[i].batch_idx = 0 /\ i <= max_steps) =>
              \E j \in 1..Len(val_calls) : val_calls[j].gs = i

C9_Witness ==
    /\ validation_every_n_steps = 2 /\ n_val = 2 /\ n_train = 3
    /\ epoch = 1 /\ pc = "batch" /\ batch_idx = 1
    /\ Len(val_calls) = 3
    /\ val_calls[3].batch = 0 /\ val_calls[3].gs = 4

\* scheduler steps taken after training steps, and at the end of epochs
LrStepsAt(at) == {i \in 1..Len(sched_steps) : sched_steps[i].at = at}

\* the part of C10 that holds as stated: a step interval k advances the
\* scheduler once after each training step whose resulting global step is
\* a multiple of k and at no other time; granularity none never advances.
C10_StepAndNone ==
    /\ lr_step.kind = "step" =>
          [i \in 1..Len(sched_steps) |-> sched_steps[i].gs] =
              Ascending({g \in 1..global_step : g % lr_step.k = 0})
          /\ LrStepsAt("epoch") = {}
    /\ lr_step.kind = "none" => sched_steps = <<>>

\* C10 as stated: as above, and with granularity "epoch" the scheduler
\* advances exactly once per completed epoch, an epoch being completed
\* when its training data was iterated to the end.
C10_AsStated ==
    /\ C10_StepAndNone
    /\ lr_step.kind = "epoch" =>
          /\ LrStepsAt("step") = {}
          /\ {sched_steps[i].epoch : i \in 1..Len(sched_steps)} = CompletedEpochs
          /\ Len(sched_steps) = Cardinality(CompletedEpochs)

\* C10 amended: as above for a step interval and for none; with
\* granularity "epoch" the scheduler advances exactly once at the end of
\* every epoch that was begun, the epoch cut short by the max_steps break
\* included, and never between the training steps of an epoch.
C10_SchedulerByGranularity ==
    /\ C10_StepAndNone
    /\ lr_step.kind = "epoch" =>
          /\ LrStepsAt("step") = {}
          /\ [i \in 1..Len(sched_steps) |-> sched_steps[i].epoch] =
                Ascending(0..(EpochsEnded - 1))

C10_Witness ==
    /\ lr_step.kind = "epoch"
    /\ pc = "done" /\ stop
    /\ epoch = 1
    /\ Cardinality(StepsOfEpoch(1)) = 1 /\ n_train = 3
    /\ Len(sched_steps) = 2

\* ========================================================================
\* Properties of CustomLogger (checked under SpecConstruct and SpecLogger)
\* ========================================================================

\* C4: a construction makes and owns a run folder that did not exist
\* before the call, the one with the lowest unused index, and leaves every
\* existing folder as it was; the folders of a sequence of constructions
\* are pairwise distinct, and against a base directory that was empty
\* they are run0, run1, ...
C4_NeverReusesRunFolder ==
    /\ [][created' # created =>
            LET n == created'[Len(created')]
            IN /\ n \notin DOMAIN fs
               /\ n \in DOMAIN fs' /\ fs'[n] = Len(created')
               /\ \A m \in 0..(n - 1) : m \in DOMAIN fs
               /\ \A m \in DOMAIN fs : m \in DOMAIN fs' /\ fs'[m] = fs[m]
               /\ save_dir' = n
               /\ cfg'["save_dir"] = PyStr(RunPath(n))]_vars
    /\ [](\A i, j \in 1..Len(created) : i # j => created[i] # created[j])
    /\ []((\A m \in DOMAIN fs : fs[m] # 0) =>
             \A i \in 1..Len(created) : created[i] = i - 1)

\* C4 witness: with run0 and run2 present beforehand, two constructions
\* made run1 and then run3.
C4_Witness ==
    /\ created = <<1, 3>>
    /\ fs[0] = 0 /\ fs[2] = 0 /\ fs[1] = 1 /\ fs[3] = 2

\* the leaves of a nested configuration, each with its path of keys
RECURSIVE LeafPaths(_, _)
LeafPaths(d, prefix) ==
    UNION {IF d[k].t \in {"dict", "cfg"}
           THEN LeafPaths(d[k].v, Append(prefix, k))
           ELSE {<<Append(prefix, k), d[k]>>} : k \in DOMAIN d}
\* the keys of a path joined with "/"
RECURSIVE JoinPath(_)
JoinPath(path) ==
    IF Len(path) = 1 THEN path[1] ELSE path[1] \o "/" \o JoinPath(Tail(path))
\* the mapping with one entry per leaf of d: joined path |-> string form
LeafMapping(d) ==
    LET leaves == LeafPaths(d, <<>>)
    IN [key \in {JoinPath(l[1]) : l \in leaves} |->
           PyStr(Repr((CHOOSE l \in leaves : JoinPath(l[1]) = key)[2]))]

\* C6 as stated: the mapping built at construction is the flattening of
\* the nested configuration (read as the configuration object at the time
\* it is flattened, save_dir entry included): exactly one entry per leaf,
\* keyed by the leaf's path of keys joined with "/", the value in string
\* form, so that the leaf 1 under a, b is stored as "a/b": "1".
C6_AsStated ==
    constructed =>
        /\ hparams = LeafMapping(cfg)
        /\ Cardinality(DOMAIN hparams) = Cardinality(LeafPaths(cfg, <<>>))

\* the metric keys given to update_hyperparams, and those given to log_dict
UpdateMetricKeys == UNION {DOMAIN hp_updates[i].metrics : i \in 1..Len(hp_updates)}
LoggedKeys == UNION {DOMAIN logged[i].params : i \in 1..Len(logged)}
\* the metrics of a sequence of update_hyperparams calls, the last value
\* given for a key standing
LastGiven(calls) ==
    [k \in UNION {DOMAIN calls[i].metrics : i \in 1..Len(calls)} |->
        LET last == CHOOSE i \in 1..Len(calls) :
                        /\ k \in DOMAIN calls[i].metrics
                        /\ \A j \in (i + 1)..Len(calls) : k \notin DOMAIN calls[j].metrics
        IN calls[last].metrics[k]]

\* C5 as stated: after the one finalize, the one summary record's metric
\* set is the union of the metrics given to update_hyperparams and those
\* logged per step through log_dict.
C5_AsStated ==
    closed =>
        /\ Len(summaries) = 1
        /\ DOMAIN summaries[1].metrics = UpdateMetricKeys \cup LoggedKeys

\* C5 amended: after the one finalize there is one summary record; its
\* metrics are exactly those given to update_hyperparams (the last value
\* given for a key standing) and its hyperparameters the stored mapping;
\* metrics logged through log_dict went to the scalar sink only.
C5_SummaryOfUpdateMetrics ==
    /\ ~closed => summaries = <<>>
    /\ closed =>
          /\ summaries = <<[hparams |-> hparams, metrics |-> LastGiven(hp_updates)]>>
          /\ DOMAIN summaries[1].metrics = UpdateMetricKeys
          /\ \A k \in LoggedKeys \ UpdateMetricKeys : k \notin DOMAIN summaries[1].metrics
          /\ \A i \in 1..Len(logged) : \A k \in DOMAIN logged[i].params :
                [tag |-> k, value |-> logged[i].params[k], step |-> logged[i].step]
                    \in scalars

C5_Witness ==
    /\ closed
    /\ Len(hp_updates) = 2
    /\ hp_updates[1].metrics = ("acc" :> 1)
    /\ summaries[1].metrics = ("acc" :> 2 @@ "val/loss" :> 1)
    /\ "train/lr" \in LoggedKeys

\* C7 as stated: every value stored in the hyperparameter mapping is a
\* string, after construction and after any update_hyperparams calls.
C7_AsStated ==
    constructed => \A k \in DOMAIN hparams : hparams[k].t = "str"
====
